---- MODULE Spec2Model ----
(***************************************************************************)
(* once_cell: a single-assignment cell in two variants.                    *)
(*                                                                         *)
(*   unsync::OnceCell<T>  { inner: UnsafeCell<Option<T>> }                 *)
(*   sync::OnceCell<T>    { inner: UnsafeCell<Option<T>>, once: Once }     *)
(*                                                                         *)
(* The program holds one cell of each kind; they share nothing.  The       *)
(* unsync cell is !Sync, so its calls are sequential and each call is one  *)
(* atomic action of its owner.  The sync cell is shared by Threads; each   *)
(* call is split at its accesses to the shared fields: the atomic load of  *)
(* is_completed, the gate of call_once, the non-atomic write of the slot,  *)
(* the completion store of call_once.                                      *)
(*                                                                         *)
(* debug_assert!(e) expands to `if cfg!(debug_assertions) { assert!(e) }`: *)
(* with debug assertions disabled the expression e is not evaluated.  The  *)
(* build mode is the variable debug_assertions, chosen in Init.            *)
(***************************************************************************)
EXTENDS Integers, FiniteSets, Sequences, TLC

\* ---- bounds ----
NumThreads == 2
MaxVal == 2
MaxSets == 2
MaxGets == 2

Threads == 1..NumThreads
Values == 1..MaxVal

\* ---- Option<T> ----
None == [some |-> FALSE, v |-> 0]
Some(x) == [some |-> TRUE, v |-> x]
Option == {None} \cup {Some(x) : x \in Values}

\* ---- what a call returned: set a Result<(), T>, get an Option<&T> ----
Ok == [op |-> "set", ok |-> TRUE, v |-> 0]
Err(x) == [op |-> "set", ok |-> FALSE, v |-> x]
Got(opt) == [op |-> "get", ok |-> opt.some, v |-> opt.v]
NoRet == [op |-> "none", ok |-> FALSE, v |-> 0]

VARIABLES
    debug_assertions,   \* cfg!(debug_assertions) of the build
    u_inner,            \* unsync::OnceCell.inner
    u_panicked,         \* the owner of the unsync cell panicked in debug_assert!
    u_arg,              \* history: argument of the latest unsync call, if a set
    u_wrote,            \* history: the latest unsync call wrote the slot
    u_ret,              \* history: what the latest unsync call returned
    u_nset,             \* history: number of unsync set calls started
    u_fresh,            \* history: gets made before the first unsync set call
    inner,              \* sync::OnceCell.inner
    once,               \* sync::OnceCell.once: state of the std Once
    writing,            \* a mem::replace on the sync slot is in progress
    pc,                 \* per thread: position inside its current call
    value,              \* per thread: the local `let mut value = Some(value)`
    arg,                \* history: argument of the thread's latest call, if a set
    wrote,              \* history: the thread's latest call wrote the slot
    atCall,             \* history: the cell as the thread's latest call found it:
                        \*          [some: the slot held a value, once: the gate]
    ret,                \* history: what the thread's latest call returned
                        \*          (NoRet: no call yet, or the call is running)
    writes,             \* history: every write of the sync slot, [by, v]
    nset,               \* history: number of sync set calls started
    fresh               \* history: gets made before the first sync set call

uvars == <<u_inner, u_panicked, u_arg, u_wrote, u_ret, u_nset, u_fresh>>
svars == <<inner, once, writing, pc, value, arg, wrote, atCall, ret, writes, nset, fresh>>
vars == <<debug_assertions, uvars, svars>>

Min(a, b) == IF a < b THEN a ELSE b

\* ---------------------------------------------------------------------
\* unsync::OnceCell
\* ---------------------------------------------------------------------

\* a constructor that fills the slot
unsync_new_filled == Some(1)

\* unsync::OnceCell::new
unsync_new == None

\* unsync::OnceCell::get: `unsafe { &*ptr }.as_ref()`
unsync_get(cell) == cell

\* a set that never takes the early return
unsync_occupied_never(cell) == FALSE

\* the early-return test of unsync set: `self.get().is_some()`
unsync_occupied(cell) == unsync_get(cell).some

\* a get that moves the value out of the slot (take() for as_ref())
UnsyncGet_takes ==
    /\ ~u_panicked
    /\ u_ret' = Got(unsync_get(u_inner))
    /\ u_inner' = None
    /\ u_arg' = None
    /\ u_wrote' = FALSE
    /\ u_fresh' = IF u_nset = 0 THEN Min(u_fresh + 1, MaxGets) ELSE u_fresh
    /\ UNCHANGED <<debug_assertions, svars, u_panicked, u_nset>>

UnsyncGet ==
    /\ ~u_panicked
    /\ u_ret' = Got(unsync_get(u_inner))
    /\ u_arg' = None
    /\ u_wrote' = FALSE
    /\ u_fresh' = IF u_nset = 0 THEN Min(u_fresh + 1, MaxGets) ELSE u_fresh
    /\ UNCHANGED <<debug_assertions, svars, u_inner, u_panicked, u_nset>>

UnsyncSet(v) ==
    /\ ~u_panicked
    /\ u_nset < MaxSets
    /\ u_nset' = u_nset + 1
    /\ u_fresh' = 0
    /\ u_arg' = Some(v)
    /\ IF unsync_occupied(u_inner)
         THEN /\ u_ret' = Err(v)
              /\ u_wrote' = FALSE
              /\ UNCHANGED <<u_inner, u_panicked>>
         ELSE \* old = mem::replace(r, Some(value)); debug_assert!(old.is_none())
              /\ u_inner' = Some(v)
              /\ u_wrote' = TRUE
              /\ IF debug_assertions /\ u_inner.some
                   THEN /\ u_panicked' = TRUE
                        /\ u_ret' = NoRet
                   ELSE /\ u_ret' = Ok
                        /\ UNCHANGED u_panicked
    /\ UNCHANGED <<debug_assertions, svars>>

\* ---------------------------------------------------------------------
\* sync::OnceCell
\* ---------------------------------------------------------------------

\* sync::OnceCell::new
sync_new == [inner |-> None, once |-> "Incomplete"]

\* a completion test that also passes while the closure is running
is_completed_or_running(o) == o \in {"Running", "Complete"}

\* Once::is_completed: an acquire load of the Once state
is_completed(o) == o = "Complete"

\* a gate that runs the closure again after completion
call_once_wins_again(o) == o # "Running"

\* Once::call_once runs the closure in the caller that finds the Once
\* not yet started
call_once_wins(o) == o = "Incomplete"

\* a gate whose waiters miss the wake-up: whoever arrives after the closure
\* started stays parked
call_once_blocks_forever(o) == o # "Incomplete"

\* a gate that parks nobody
call_once_blocks_never(o) == FALSE

\* Once::call_once parks the caller while another caller runs the closure
call_once_blocks(o) == o = "Running"

\* a holder that is copied, not taken
take_copy(opt) == [taken |-> opt, left |-> opt]

\* Option::take on the local holder: what is moved out, what is left
take(opt) == [taken |-> opt, left |-> None]

\* sync::OnceCell::get as a whole, when nothing else runs during the call
sync_get(o, slot) == IF is_completed(o) THEN slot ELSE None

\* a get that waits at the gate, as call_once does, while a write is in flight
SyncGet_Check_parks(t) ==
    /\ pc[t] = "idle"
    /\ ~call_once_blocks(once)
    /\ arg' = [arg EXCEPT ![t] = None]
    /\ wrote' = [wrote EXCEPT ![t] = FALSE]
    /\ atCall' = [atCall EXCEPT ![t] = [some |-> inner.some, once |-> once]]
    /\ fresh' = IF nset = 0 THEN Min(fresh + 1, MaxGets) ELSE fresh
    /\ IF is_completed(once)
         THEN /\ pc' = [pc EXCEPT ![t] = "get_read"]
              /\ ret' = [ret EXCEPT ![t] = NoRet]
         ELSE /\ ret' = [ret EXCEPT ![t] = Got(None)]
              /\ UNCHANGED pc
    /\ UNCHANGED <<debug_assertions, uvars>>
    /\ UNCHANGED <<inner, once, writing, value, writes, nset>>

\* get, line 58: the check of the gate; not completed returns None at once
SyncGet_Check(t) ==
    /\ pc[t] = "idle"
    /\ arg' = [arg EXCEPT ![t] = None]
    /\ wrote' = [wrote EXCEPT ![t] = FALSE]
    /\ atCall' = [atCall EXCEPT ![t] = [some |-> inner.some, once |-> once]]
    /\ fresh' = IF nset = 0 THEN Min(fresh + 1, MaxGets) ELSE fresh
    /\ IF is_completed(once)
         THEN /\ pc' = [pc EXCEPT ![t] = "get_read"]
              /\ ret' = [ret EXCEPT ![t] = NoRet]
         ELSE /\ ret' = [ret EXCEPT ![t] = Got(None)]
              /\ UNCHANGED pc
    /\ UNCHANGED <<debug_assertions, uvars>>
    /\ UNCHANGED <<inner, once, writing, value, writes, nset>>

\* get, line 59: the read of the slot.  A read that overlaps a write of the
\* slot is a data race: any result.
SyncGet_Read(t) ==
    /\ pc[t] = "get_read"
    /\ \E r \in (IF writing THEN Option ELSE {inner}) :
          ret' = [ret EXCEPT ![t] = Got(r)]
    /\ pc' = [pc EXCEPT ![t] = "idle"]
    /\ UNCHANGED <<debug_assertions, uvars>>
    /\ UNCHANGED <<inner, once, writing, value, arg, wrote, atCall, writes, nset, fresh>>

\* set, lines 65-69: the fast check, then `let mut value = Some(value)`
SyncSet_FastCheck(t, v) ==
    /\ pc[t] = "idle"
    /\ nset < MaxSets
    /\ nset' = nset + 1
    /\ fresh' = 0
    /\ arg' = [arg EXCEPT ![t] = Some(v)]
    /\ wrote' = [wrote EXCEPT ![t] = FALSE]
    /\ atCall' = [atCall EXCEPT ![t] = [some |-> inner.some, once |-> once]]
    /\ IF is_completed(once)
         THEN /\ ret' = [ret EXCEPT ![t] = Err(v)]
              /\ UNCHANGED <<pc, value>>
         ELSE /\ value' = [value EXCEPT ![t] = Some(v)]
              /\ pc' = [pc EXCEPT ![t] = "call_once"]
              /\ ret' = [ret EXCEPT ![t] = NoRet]
    /\ UNCHANGED <<debug_assertions, uvars>>
    /\ UNCHANGED <<inner, once, writing, writes>>

\* a gate that lets the caller in without marking the Once as running
SyncSet_CallOnce_unmarked(t) ==
    /\ pc[t] = "call_once"
    /\ ~call_once_blocks(once)
    /\ IF call_once_wins(once)
         THEN pc' = [pc EXCEPT ![t] = "closure"]
         ELSE IF once = "Poisoned"
         THEN pc' = [pc EXCEPT ![t] = "panicked"]
         ELSE pc' = [pc EXCEPT ![t] = "match"]
    /\ UNCHANGED <<debug_assertions, uvars>>
    /\ UNCHANGED <<inner, once, writing, value, arg, wrote, atCall, ret, writes, nset, fresh>>

\* set, line 70: entering Once::call_once
SyncSet_CallOnce(t) ==
    /\ pc[t] = "call_once"
    /\ ~call_once_blocks(once)
    /\ IF call_once_wins(once)
         THEN /\ once' = "Running"
              /\ pc' = [pc EXCEPT ![t] = "closure"]
         ELSE IF once = "Poisoned"
         THEN /\ pc' = [pc EXCEPT ![t] = "panicked"]
              /\ UNCHANGED once
         ELSE /\ pc' = [pc EXCEPT ![t] = "match"]
              /\ UNCHANGED once
    /\ UNCHANGED <<debug_assertions, uvars>>
    /\ UNCHANGED <<inner, writing, value, arg, wrote, atCall, ret, writes, nset, fresh>>

\* set, lines 71-72: the closure.  Its only statement is a debug_assert!, so
\* the replace (and the take) run only when debug assertions are enabled.
SyncSet_ClosureBegin(t) ==
    /\ pc[t] = "closure"
    /\ IF debug_assertions
         THEN /\ writing' = TRUE
              /\ pc' = [pc EXCEPT ![t] = "replace"]
         ELSE /\ pc' = [pc EXCEPT ![t] = "finish"]
              /\ UNCHANGED writing
    /\ UNCHANGED <<debug_assertions, uvars>>
    /\ UNCHANGED <<inner, once, value, arg, wrote, atCall, ret, writes, nset, fresh>>

\* set, line 72: mem::replace(inner, value.take()) finishes; assert the old
\* content was None (a panic inside call_once poisons the Once)
SyncSet_ClosureEnd(t) ==
    /\ pc[t] = "replace"
    /\ inner' = take(value[t]).taken
    /\ value' = [value EXCEPT ![t] = take(value[t]).left]
    /\ writing' = FALSE
    /\ wrote' = [wrote EXCEPT ![t] = TRUE]
    /\ writes' = writes \cup {[by |-> t, v |-> value[t].v]}
    /\ IF inner.some
         THEN /\ once' = "Poisoned"
              /\ pc' = [pc EXCEPT ![t] = "panicked"]
         ELSE /\ pc' = [pc EXCEPT ![t] = "finish"]
              /\ UNCHANGED once
    /\ UNCHANGED <<debug_assertions, uvars>>
    /\ UNCHANGED <<arg, atCall, ret, nset, fresh>>

\* a gate that is re-armed when the closure returns
SyncSet_CallOnceFinish_rearms(t) ==
    /\ pc[t] = "finish"
    /\ once' = "Incomplete"
    /\ pc' = [pc EXCEPT ![t] = "match"]
    /\ UNCHANGED <<debug_assertions, uvars>>
    /\ UNCHANGED <<inner, writing, value, arg, wrote, atCall, ret, writes, nset, fresh>>

\* set, line 73: call_once publishes completion and wakes the waiters
SyncSet_CallOnceFinish(t) ==
    /\ pc[t] = "finish"
    /\ once' = "Complete"
    /\ pc' = [pc EXCEPT ![t] = "match"]
    /\ UNCHANGED <<debug_assertions, uvars>>
    /\ UNCHANGED <<inner, writing, value, arg, wrote, atCall, ret, writes, nset, fresh>>

\* set, lines 75-81: the match on the local holder
SyncSet_Match(t) ==
    /\ pc[t] = "match"
    /\ IF ~value[t].some
         THEN /\ ret' = [ret EXCEPT ![t] = Ok]
              /\ pc' = [pc EXCEPT ![t] = "idle"]
         ELSE IF debug_assertions /\ ~is_completed(once)
         THEN /\ pc' = [pc EXCEPT ![t] = "panicked"]
              /\ UNCHANGED ret
         ELSE /\ ret' = [ret EXCEPT ![t] = Err(value[t].v)]
              /\ pc' = [pc EXCEPT ![t] = "idle"]
    /\ value' = [value EXCEPT ![t] = None]
    /\ UNCHANGED <<debug_assertions, uvars>>
    /\ UNCHANGED <<inner, once, writing, arg, wrote, atCall, writes, nset, fresh>>

\* ---------------------------------------------------------------------
\* the program
\* ---------------------------------------------------------------------

Init ==
    /\ debug_assertions \in BOOLEAN
    /\ u_inner = unsync_new
    /\ u_panicked = FALSE
    /\ u_arg = None
    /\ u_wrote = FALSE
    /\ u_ret = NoRet
    /\ u_nset = 0
    /\ u_fresh = 0
    /\ inner = sync_new.inner
    /\ once = sync_new.once
    /\ writing = FALSE
    /\ pc = [t \in Threads |-> "idle"]
    /\ value = [t \in Threads |-> None]
    /\ arg = [t \in Threads |-> None]
    /\ wrote = [t \in Threads |-> FALSE]
    /\ atCall = [t \in Threads |-> [some |-> FALSE, once |-> "Incomplete"]]
    /\ ret = [t \in Threads |-> NoRet]
    /\ writes = {}
    /\ nset = 0
    /\ fresh = 0

\* the steps a thread takes inside a call it has started
SyncStep(t) ==
    \/ SyncGet_Read(t)
    \/ SyncSet_CallOnce(t)
    \/ SyncSet_ClosureBegin(t)
    \/ SyncSet_ClosureEnd(t)
    \/ SyncSet_CallOnceFinish(t)
    \/ SyncSet_Match(t)

SyncNext ==
    \/ \E t \in Threads : SyncGet_Check(t)
    \/ \E t \in Threads : SyncGet_Read(t)
    \/ \E t \in Threads : \E v \in Values : SyncSet_FastCheck(t, v)
    \/ \E t \in Threads : SyncSet_CallOnce(t)
    \/ \E t \in Threads : SyncSet_ClosureBegin(t)
    \/ \E t \in Threads : SyncSet_ClosureEnd(t)
    \/ \E t \in Threads : SyncSet_CallOnceFinish(t)
    \/ \E t \in Threads : SyncSet_Match(t)

Next ==
    \/ UnsyncGet
    \/ \E v \in Values : UnsyncSet(v)
    \/ SyncNext

Spec == Init /\ [][Next]_vars

\* The sync cell alone, its threads scheduled fairly: a thread inside a call
\* keeps running.
FairSpec == Init /\ [][SyncNext]_vars /\ \A t \in Threads : WF_vars(SyncStep(t))

TypeOK ==
    /\ debug_assertions \in BOOLEAN
    /\ u_inner \in Option
    /\ inner \in Option
    /\ once \in {"Incomplete", "Running", "Complete", "Poisoned"}
    /\ writing \in BOOLEAN
    /\ \A t \in Threads :
         /\ pc[t] \in {"idle", "get_read", "call_once", "closure", "replace",
                       "finish", "match", "panicked"}
         /\ value[t] \in Option
    /\ nset \in 0..MaxSets
    /\ fresh \in 0..MaxGets

\* ---------------------------------------------------------------------
\* properties
\* ---------------------------------------------------------------------

\* the thread's latest call was a set, and it has returned
SetReturned(t) == pc[t] = "idle" /\ ret[t].op = "set"

\* the thread took a step: a step changes only the acting thread's entries
\* (the owner of the unsync cell changes none of them)
StepOf(t) ==
    <<pc[t], value[t], arg[t], wrote[t], atCall[t], ret[t]>>' #
    <<pc[t], value[t], arg[t], wrote[t], atCall[t], ret[t]>>

\* the thread is inside a set call
InSet(t) == pc[t] \in {"call_once", "closure", "replace", "finish", "match"}

\* C1. Race exclusivity: when every thread has called set exactly once on the
\* sync cell, with pairwise distinct values, and all calls have returned,
\* exactly one call returned Ok(()), every other call returned Err of its own
\* value, and get() returns Some of the value of the call that returned Ok.
C1_RaceExclusivity ==
    ( /\ nset = NumThreads
      /\ \A t \in Threads : SetReturned(t)
      /\ \A t, u \in Threads : t # u => arg[t] # arg[u] )
    => \E w \in Threads :
         /\ ret[w] = Ok
         /\ \A t \in Threads \ {w} : ret[t] = Err(arg[t].v)
         /\ sync_get(once, inner) = Some(arg[w].v)

\* C2. Visibility: a get() of the sync cell whose check of the gate read
\* Completed returns Some(v) with v the value written by the winning set;
\* never None, never another value.
C2_Visibility ==
    [][ \A t \in Threads :
          (pc[t] = "get_read" /\ pc'[t] = "idle")
          => /\ ret'[t].op = "get"
             /\ ret'[t].ok
             /\ \E w \in writes : ret'[t].v = w.v ]_vars

\* C3. Write-once: in both cells, once the slot holds a value, every step
\* leaves the slot as it is: never emptied, never overwritten.
C3_WriteOnce ==
    [][ /\ inner.some => inner' = inner
        /\ u_inner.some => u_inner' = u_inner ]_vars

\* C3 witness: both cells hold a value and each has since rejected a set of
\* a different value.
C3_Witness ==
    /\ u_inner.some /\ u_ret.op = "set" /\ ~u_ret.ok /\ u_ret.v # u_inner.v
    /\ inner.some
    /\ \E t \in Threads : SetReturned(t) /\ ~ret[t].ok /\ ret[t].v # inner.v

\* C4. Write-once success: in both cells, when the only set call made so far
\* (the first, on the fresh cell) has returned, it returned Ok(()), and get()
\* returns Some of its argument.
C4_FirstSetSucceeds ==
    /\ (u_nset = 1 /\ u_ret.op = "set")
         => (u_ret = Ok /\ unsync_get(u_inner) = Some(u_arg.v))
    /\ \A t \in Threads :
         (nset = 1 /\ SetReturned(t))
         => (ret[t] = Ok /\ sync_get(once, inner) = Some(arg[t].v))

\* C5. Rejection returns ownership: a set(v2) on a cell that already holds a
\* value returns Err(v2) and changes neither the slot nor, in the sync cell,
\* the gate: no step of the call does.
C5_RejectionReturnsOwnership ==
    [][ /\ (u_nset' # u_nset /\ u_inner.some)
             => (u_ret' = Err(u_arg'.v) /\ u_inner' = u_inner /\ ~u_panicked')
        /\ \A t \in Threads :
             (StepOf(t) /\ arg'[t].some /\ atCall'[t].some)
             => /\ inner' = inner
                /\ once' = once
                /\ pc'[t] # "panicked"
                /\ pc'[t] = "idle" => ret'[t] = Err(arg'[t].v) ]_vars

\* C5 witness: each cell held a value v1 when set(v2) was called with another
\* value v2, and the call has returned Err(v2).
C5_Witness ==
    /\ u_inner.some /\ u_ret = Err(u_arg.v) /\ u_arg.v # u_inner.v
    /\ \E t \in Threads :
         /\ SetReturned(t) /\ atCall[t].some /\ atCall[t].once = "Complete"
         /\ ret[t] = Err(arg[t].v) /\ arg[t].v # inner.v

\* C6. Decided on return: whenever a set call on the sync cell has returned,
\* Ok or Err, the gate is Completed, the slot holds the winner's value, and
\* no write transaction is in progress.
C6_DecidedOnReturn ==
    \A t \in Threads :
        SetReturned(t)
        => /\ is_completed(once)
           /\ ~writing
           /\ \A u \in Threads : pc[u] \notin {"closure", "replace", "finish"}
           /\ \E w \in writes : inner = Some(w.v)

\* C7. get never blocks: a thread outside any call can always take the first
\* step of a get, and a thread inside a get can always take its next step,
\* whatever the gate; a get that finds the gate Uninitialized or InProgress
\* returns None in that one step.
C7_GetNeverBlocks ==
    /\ [](\A t \in Threads :
            /\ pc[t] = "idle" => ENABLED SyncGet_Check(t)
            /\ pc[t] = "get_read" => ENABLED SyncGet_Read(t))
    /\ [][ \A t \in Threads :
             (StepOf(t) /\ pc[t] = "idle" /\ ~arg'[t].some /\ ~is_completed(once))
             => (pc'[t] = "idle" /\ ret'[t] = Got(None)) ]_vars

\* C7 witness: a get that began while the winner was inside call_once, the
\* slot write in progress, has returned None, and the write is still going.
C7_Witness ==
    /\ once = "Running"
    /\ writing
    /\ \E t \in Threads :
         /\ pc[t] = "idle" /\ ret[t] = Got(None)
         /\ atCall[t].once = "Running"

\* C8. Termination of set: with the threads scheduled fairly, every set call
\* on the sync cell returns (so no loser stays parked at the gate, and the
\* calls do not deadlock).
C8_SetTerminates ==
    \A t \in Threads : InSet(t) ~> (pc[t] = "idle" /\ ret[t].op = "set")

\* C8 witness: a set call that began while the winner was inside call_once
\* has been through the gate and has returned.
C8_Witness ==
    \E t \in Threads :
        /\ SetReturned(t)
        /\ atCall[t].once = "Running"
        /\ is_completed(once)

\* C9. No value is lost or duplicated: when a set(v) call has returned, in
\* either cell, either it returned Ok(()) and wrote v, which the slot holds,
\* or it returned Err(v) and did not write; and no set call panics.
C9_NoValueLostOrDuplicated ==
    /\ ~u_panicked
    /\ u_ret.op = "set"
         => \/ u_ret = Ok /\ u_wrote /\ u_inner = u_arg
            \/ u_ret = Err(u_arg.v) /\ ~u_wrote
    /\ \A t \in Threads :
         /\ pc[t] # "panicked"
         /\ SetReturned(t)
              => \/ /\ ret[t] = Ok
                    /\ wrote[t]
                    /\ inner = arg[t]
                    /\ [by |-> t, v |-> arg[t].v] \in writes
                 \/ /\ ret[t] = Err(arg[t].v)
                    /\ ~wrote[t]

\* C9 witness: in the sync cell one set call has returned Ok and another
\* Err; in the unsync cell a set call has returned Ok.
C9_Witness ==
    /\ u_ret = Ok
    /\ \E t, u \in Threads :
         /\ SetReturned(t) /\ ret[t] = Ok
         /\ SetReturned(u) /\ ret[u] = Err(arg[u].v)

\* C10. Empty before any write: in either cell, as long as no set call has
\* been started, every get that has returned returned None, and a get called
\* now returns None.
C10_EmptyBeforeAnyWrite ==
    /\ u_nset = 0
         => (u_ret \in {NoRet, Got(None)} /\ unsync_get(u_inner) = None)
    /\ nset = 0
         => /\ \A t \in Threads : ret[t] \in {NoRet, Got(None)}
            /\ sync_get(once, inner) = None

\* C10 witness: no set call has been started on either cell and get has been
\* called on each at least MaxGets times, returning None.
C10_Witness ==
    /\ u_nset = 0 /\ u_fresh = MaxGets /\ u_ret = Got(None)
    /\ nset = 0 /\ fresh = MaxGets
    /\ \A t \in Threads : ret[t] = Got(None)

\* the thread's latest call was a get, and it has returned
GetReturned(t) == pc[t] = "idle" /\ ret[t].op = "get"

\* the step is a step of a get call of the thread
GetStepOf(t) ==
    /\ StepOf(t)
    /\ \/ pc[t] = "get_read"
       \/ pc[t] = "idle" /\ ~arg'[t].some

\* C11. Reads are pure and idempotent: in both cells no step of a get changes
\* the slot or, in the sync cell, the gate; and every get called once the
\* value is in place (the slot written, in the sync cell the gate Completed)
\* returns Some of that one value.
C11_ReadsPureAndIdempotent ==
    [][ /\ u_ret'.op = "get" => u_inner' = u_inner
        /\ (u_ret'.op = "get" /\ u_inner.some) => u_ret' = Got(u_inner)
        /\ \A t \in Threads :
             /\ GetStepOf(t)
                  => (inner' = inner /\ once' = once /\ writing' = writing)
             /\ (GetStepOf(t) /\ pc'[t] = "idle"
                   /\ atCall'[t].some /\ atCall'[t].once = "Complete")
                  => ret'[t] = Got(inner) ]_vars

\* C11 witness: after a successful set on each cell, get has returned the
\* stored value: to the unsync owner, and to every thread of the sync cell.
C11_Witness ==
    /\ u_inner.some /\ u_ret = Got(u_inner)
    /\ inner.some
    /\ \A t \in Threads : GetReturned(t) /\ ret[t] = Got(inner)

C13_CallsWaitWhileInProgress ==
    \A t \in Threads :
        (pc[t] = "idle" /\ ret[t].op \in {"set", "get"} /\ atCall[t].once = "Running")
        => is_completed(once)

\* C13 as amended. A set call made while the gate is InProgress returns only
\* after the gate has become Completed, and returns Err of its own value; a
\* get call made while the gate is InProgress does not wait: it returns None.
C13_SetWaitsGetDoesNot ==
    \A t \in Threads :
        /\ (SetReturned(t) /\ atCall[t].once = "Running")
             => (is_completed(once) /\ ret[t] = Err(arg[t].v))
        /\ (GetReturned(t) /\ atCall[t].once = "Running")
             => ret[t] = Got(None)

\* C13 witness: a set call found the gate InProgress, the slot already
\* written, and has returned Err of its own value after the completion.
C13_Witness ==
    \E t \in Threads :
        /\ SetReturned(t)
        /\ atCall[t] = [some |-> TRUE, once |-> "Running"]
        /\ ret[t] = Err(arg[t].v)
        /\ is_completed(once)

\* the thread is inside the closure of call_once (the write transaction)
InClosure(t) == pc[t] \in {"closure", "replace", "finish"}

\* C14. Single writer: over the lifetime of the sync cell the slot is written
\* at most once, by at most one thread, and the writer is the thread whose
\* set call moved the gate from Uninitialized to InProgress: a thread enters
\* the closure only by making that move, whoever makes the move enters the
\* closure, at most one thread is in the closure, and the slot changes only
\* by a write of the thread in the closure, the first write there is.
C14_SingleWriter ==
    /\ [](/\ Cardinality(writes) <= 1
          /\ Cardinality({t \in Threads : InClosure(t)}) <= 1)
    /\ [][ /\ \A t \in Threads :
                /\ (~InClosure(t) /\ InClosure(t)')
                     => (once = "Incomplete" /\ once' = "Running")
                /\ (StepOf(t) /\ once = "Incomplete" /\ once' # once)
                     => (InClosure(t)' /\ once' = "Running")
           /\ inner' # inner => writes' # writes
           /\ writes' # writes
                => /\ writes = {}
                   /\ \E t \in Threads :
                        /\ InClosure(t) /\ InClosure(t)'
                        /\ writes' = {[by |-> t, v |-> arg[t].v]}
                        /\ inner' = arg[t] ]_vars

\* C14 witness: two set calls raced from the Uninitialized gate; one wrote
\* the slot, the other has returned Err, and there is one write on record.
C14_Witness ==
    /\ Cardinality(writes) = 1
    /\ \E w, t \in Threads :
         /\ w # t
         /\ [by |-> w, v |-> inner.v] \in writes
         /\ atCall[w].once = "Incomplete" /\ ret[w] = Ok
         /\ atCall[t].once = "Incomplete" /\ ret[t] = Err(arg[t].v)

\* C15. Gate monotonicity: the gate of the sync cell changes only by the steps
\* Uninitialized -> InProgress and InProgress -> Completed; it never moves
\* back, never goes from Uninitialized straight to Completed, and once
\* Completed it stays Completed.
C15_GateMonotone ==
    [][ /\ once' # once
             => \/ once = "Incomplete" /\ once' = "Running"
                \/ once = "Running" /\ once' = "Complete"
        /\ is_completed(once) => is_completed(once') ]_vars

\* C15 witness: the gate has gone all the way to Completed, and a set call
\* that found it Completed has since been made and has returned.
C15_Witness ==
    /\ once = "Complete"
    /\ \E t \in Threads :
         SetReturned(t) /\ atCall[t].once = "Complete" /\ ret[t] = Err(arg[t].v)
    /\ \E t \in Threads : atCall[t].once = "Incomplete" /\ SetReturned(t)

\* C16. Benign fast-check race: a set call on the sync cell that passed the
\* fast check (the gate read as not Completed) and arrives at call_once when
\* the gate is already Completed goes on to the match without running the
\* closure, its holder still Some of its argument and the slot untouched; and
\* a set call that arrives at the match without having written returns Err
\* of its own value, the slot untouched.
C16_BenignFastCheckRace ==
    [][ \A t \in Threads :
          /\ (StepOf(t) /\ pc[t] = "call_once" /\ is_completed(once))
               => /\ pc'[t] = "match"
                  /\ arg[t].some /\ value'[t] = arg[t]
                  /\ ~wrote'[t]
                  /\ inner' = inner /\ writes' = writes /\ once' = once
          /\ (StepOf(t) /\ pc[t] = "match" /\ ~wrote[t])
               => /\ pc'[t] = "idle"
                  /\ ret'[t] = Err(arg[t].v)
                  /\ inner' = inner /\ writes' = writes /\ once' = once ]_vars

\* C16 witness: a set call read the gate as Uninitialized in its fast check,
\* another thread's call won and wrote a different value, and the first call
\* has returned Err of its own value without writing.
C16_Witness ==
    \E t, w \in Threads :
        /\ t # w
        /\ wrote[w] /\ inner = arg[w] /\ is_completed(once)
        /\ SetReturned(t) /\ ~wrote[t]
        /\ atCall[t] = [some |-> FALSE, once |-> "Incomplete"]
        /\ ret[t] = Err(arg[t].v) /\ arg[t] # inner

\* C17. Assertion validity: the debug assertions never fail.  Nothing ever
\* panics and the Once is never poisoned; the slot of either cell is empty
\* whenever it is written (unsync set line 32, sync set line 72); and the
\* gate is Completed whenever a sync set call is at the match with its value
\* not taken (line 78).
C17_AssertionsHold ==
    /\ [](/\ ~u_panicked
          /\ once # "Poisoned"
          /\ \A t \in Threads :
               /\ pc[t] # "panicked"
               /\ pc[t] = "replace" => ~inner.some
               /\ (pc[t] = "match" /\ value[t].some) => is_completed(once))
    /\ [][ /\ u_inner' # u_inner => ~u_inner.some
           /\ inner' # inner => ~inner.some ]_vars

\* C17 witness: in a build with debug assertions each of the three has been
\* evaluated and has passed: an unsync set returned Ok, a sync set wrote the
\* slot and returned Ok, and a sync set that went through call_once returned
\* Err.
C17_Witness ==
    /\ debug_assertions
    /\ u_ret = Ok /\ u_wrote
    /\ \E w, t \in Threads :
         /\ SetReturned(w) /\ wrote[w] /\ ret[w] = Ok
         /\ SetReturned(t) /\ atCall[t].once # "Complete" /\ ret[t] = Err(arg[t].v)

\* C18. No read/write overlap on the slot: the sync slot is being written
\* only while the gate is InProgress, a get is about to read it only when
\* the gate is Completed, so never while it is being written; and every get
\* that has returned observed either None or the winner's value, which the
\* slot holds in full.
C18_NoReadWriteOverlap ==
    /\ writing => once = "Running"
    /\ \A t \in Threads :
         /\ pc[t] = "replace" => (writing /\ once = "Running")
         /\ pc[t] = "get_read" => (once = "Complete" /\ ~writing)
         /\ GetReturned(t)
              => \/ ret[t] = Got(None)
                 \/ \E w \in writes : ret[t] = Got(Some(w.v)) /\ inner = Some(w.v)

\* C18 witness: the winner has written and completed the gate and is still
\* inside its set call, and a get of another thread, concurrent with that
\* call, has read the slot and returned the winner's value.
C18_Witness ==
    \E t, w \in Threads :
        /\ t # w
        /\ pc[w] = "match" /\ wrote[w]
        /\ GetReturned(t) /\ ret[t] = Got(Some(arg[w].v))

\* C19. Build-mode independence: with debug assertions enabled or disabled,
\* the set call that ran the closure of call_once has, when the closure
\* returns, stored its value in the slot and taken it out of its holder; when
\* the gate is Completed the slot holds a written value, so a later get
\* returns Some of it; and the first set call made on the cell returns Ok.
C19_BuildModeIndependence ==
    /\ \A t \in Threads :
         /\ pc[t] = "finish"
              => (wrote[t] /\ inner = arg[t] /\ ~value[t].some)
         /\ (SetReturned(t) /\ nset = 1) => ret[t] = Ok
    /\ is_completed(once)
         => \E w \in writes : sync_get(once, inner) = Some(w.v)

====
